---- MODULE Spec2Model ----
(***************************************************************************)
(* Model of the dataset preprocessing pipeline of deep_chem:               *)
(*   scripts/process_dataset.py  Field Parser (parse_float_input,          *)
(*                               process_field), Target Builder            *)
(*                               (generate_targets)                        *)
(*   utils/preprocess.py         Dataset Assembler, Label/Weight Balancer, *)
(*                               Transform Engine, Splitter, Scaffold      *)
(*                               Grouper                                   *)
(* Each component has its own variables and its own specification; the     *)
(* variables of the other components stay at their idle values.            *)
(***************************************************************************)
EXTENDS Integers, Sequences, FiniteSets, TLC

VARIABLES
  fpPc, fpData, fpType, fpResult,      \* Field Parser call
  asPc, asDataset, asCall, asX, asY, asW,  \* Dataset Assembler call
  bpPc, bpY, bpW0, bpW,                \* Label/Weight Balancer call
  spPc, spDataset, spCall, spTrain, spTest,  \* Splitter call and its locals
  spScaffolds, spIdx, spShuffled, spRuns,
  rng,                                 \* numpy's global random generator
  tiPc, tiX, tiOps, tiZ, tiFeature, tiErr,  \* transform_inputs call
  toPc, toY, toY0, toW, toTransforms,  \* transform_outputs call
  endpoints, toTask, toOp, toErr,
  tbPc, tbRawRows, threshold, row_index, tbRows, tbMols  \* generate_targets call

fpVars == <<fpPc, fpData, fpType, fpResult>>
asVars == <<asPc, asDataset, asCall, asX, asY, asW>>
bpVars == <<bpPc, bpY, bpW0, bpW>>
spVars == <<spPc, spDataset, spCall, spTrain, spTest, spScaffolds, spIdx,
            spShuffled, spRuns, rng>>
tiVars == <<tiPc, tiX, tiOps, tiZ, tiFeature, tiErr>>
toVars == <<toPc, toY, toY0, toW, toTransforms, endpoints, toTask, toOp,
            toErr>>
tbVars == <<tbPc, tbRawRows, threshold, row_index, tbRows, tbMols>>
vars == <<fpVars, asVars, bpVars, spVars, tiVars, toVars, tbVars>>

\* What a step of one component leaves alone.
fpOthers == <<asVars, bpVars, spVars, tiVars, toVars, tbVars>>
asOthers == <<fpVars, bpVars, spVars, tiVars, toVars, tbVars>>
bpOthers == <<fpVars, asVars, spVars, tiVars, toVars, tbVars>>
spOthers == <<fpVars, asVars, bpVars, tiVars, toVars, tbVars>>
tiOthers == <<fpVars, asVars, bpVars, spVars, toVars, tbVars>>
toOthers == <<fpVars, asVars, bpVars, spVars, tiVars, tbVars>>
tbOthers == <<fpVars, asVars, bpVars, spVars, tiVars, toVars>>

(***************************************************************************)
(* Generic helpers.                                                        *)
(***************************************************************************)
Range(s) == {s[i] : i \in 1..Len(s)}

\* All sequences over S of length 0..n.
SeqsUpTo(S, n) == UNION {[1..k -> S] : k \in 0..n}

RECURSIVE Pow10(_)
Pow10(k) == IF k = 0 THEN 1 ELSE 10 * Pow10(k - 1)

(***************************************************************************)
(* Field Parser (scripts/process_dataset.py).                              *)
(* A raw field is None or a string; a string is a sequence of characters.  *)
(***************************************************************************)
MaxFieldLen == 3

Digits == {"1", "5"}
Chars == Digits \cup {".", "-", ">", "<", ",", "a"}

DigitVal(c) == IF c = "1" THEN 1 ELSE 5

None == [tag |-> "None", s |-> <<>>]
Str(s) == [tag |-> "str", s |-> s]
RawFields == {None} \cup {Str(s) : s \in SeqsUpTo(Chars, MaxFieldLen)}

FieldTypes == {"string", "float", "list-string", "list-float", "ndarray"}

\* Values a parser call can produce.
NoneVal == [tag |-> "None", num |-> 0, den |-> 1, s |-> <<>>, l |-> <<>>]
NanVal == [tag |-> "nan", num |-> 0, den |-> 1, s |-> <<>>, l |-> <<>>]
FloatVal(n, d) == [tag |-> "float", num |-> n, den |-> d, s |-> <<>>, l |-> <<>>]
StrVal(s) == [tag |-> "str", num |-> 0, den |-> 1, s |-> s, l |-> <<>>]
ListVal(l) == [tag |-> "list", num |-> 0, den |-> 1, s |-> <<>>, l |-> l]
Raise(e) == [tag |-> "raise", num |-> 0, den |-> 1, s |-> <<e>>, l |-> <<>>]

\* float(val) of the interpreter on the characters of Chars: an optional
\* sign, digits with at most one decimal point, at least one digit.
Unsigned(s) == IF Len(s) > 0 /\ s[1] = "-" THEN Tail(s) ELSE s

FloatAccepts(s) ==
  LET b == Unsigned(s)
  IN /\ \A i \in 1..Len(b) : b[i] \in Digits \cup {"."}
     /\ Cardinality({i \in 1..Len(b) : b[i] = "."}) <= 1
     /\ \E i \in 1..Len(b) : b[i] \in Digits

RECURSIVE DigitsValue(_)
DigitsValue(s) ==
  IF Len(s) = 0 THEN 0
  ELSE 10 * DigitsValue(SubSeq(s, 1, Len(s) - 1)) + DigitVal(s[Len(s)])

\* The value float(val) returns on an accepted string, as num/den.
FloatOf(s) ==
  LET b == Unsigned(s)
      dots == {i \in 1..Len(b) : b[i] = "."}
      ds == SelectSeq(b, LAMBDA c : c \in Digits)
      frac == IF dots = {} THEN 0 ELSE Len(b) - (CHOOSE i \in dots : TRUE)
      sign == IF Len(s) > 0 /\ s[1] = "-" THEN -1 ELSE 1
  IN FloatVal(sign * DigitsValue(ds), Pow10(frac))

Contains(s, c) == \E i \in 1..Len(s) : s[i] = c

\* parse_float_input(val): a failed coercion without '>', '<' or '-' falls
\* off the end of the except block, so the call returns None.
parse_float_input(val) ==
  IF val = None THEN NoneVal
  ELSE IF FloatAccepts(val.s) THEN FloatOf(val.s)
  ELSE IF Contains(val.s, ">") \/ Contains(val.s, "<") \/ Contains(val.s, "-")
       THEN NanVal
  ELSE NoneVal

\* data.split(","): the pieces between the commas, empty pieces included.
RECURSIVE SplitComma(_)
SplitComma(s) ==
  IF ~Contains(s, ",") THEN <<s>>
  ELSE LET k == CHOOSE i \in 1..Len(s) :
                  s[i] = "," /\ \A j \in 1..(i - 1) : s[j] # ","
       IN <<SubSeq(s, 1, k - 1)>> \o SplitComma(SubSeq(s, k + 1, Len(s)))

\* process_field(data, field_type)
process_field(data, field_type) ==
  IF field_type = "string" THEN
    (IF data = None THEN NoneVal ELSE StrVal(data.s))
  ELSE IF field_type = "float" THEN parse_float_input(data)
  ELSE IF field_type = "list-string" \/ field_type = "list-float" THEN
    (IF data = None THEN Raise("AttributeError") ELSE ListVal(SplitComma(data.s)))
  ELSE IF field_type = "ndarray" THEN
    (IF data = None THEN NoneVal ELSE StrVal(data.s))
  ELSE NoneVal

FpIdle ==
  /\ fpPc = "idle"
  /\ fpData = None
  /\ fpType = "string"
  /\ fpResult = NoneVal

FpInit ==
  /\ fpPc = "call"
  /\ fpData \in RawFields
  /\ fpType \in FieldTypes
  /\ fpResult = NoneVal

\* One call of process_field that returns a value.
ProcessFieldReturn ==
  /\ fpPc = "call"
  /\ process_field(fpData, fpType).tag # "raise"
  /\ fpResult' = process_field(fpData, fpType)
  /\ fpPc' = "returned"
  /\ UNCHANGED <<fpData, fpType, fpOthers>>

\* One call of process_field that raises.
ProcessFieldRaise ==
  /\ fpPc = "call"
  /\ process_field(fpData, fpType).tag = "raise"
  /\ fpResult' = process_field(fpData, fpType)
  /\ fpPc' = "raised"
  /\ UNCHANGED <<fpData, fpType, fpOthers>>


(***************************************************************************)
(* Exact numbers.  The arrays hold floats; the model keeps each value      *)
(* exactly, as n / (d * sqrt(r)) with d > 0 and r > 0 (r = 1 for a         *)
(* rational), so that comparisons are decided by integer arithmetic.  A    *)
(* value that has no such form (a logarithm, or arithmetic on one or on a  *)
(* square root) keeps in sym the operations applied to n / (d * sqrt(r)).  *)
(***************************************************************************)
Num(n, d, r) == [n |-> n, d |-> d, r |-> r, sym |-> <<>>]
IntNum(k) == Num(k, 1, 1)
Zero == IntNum(0)
One == IntNum(1)

IsRational(a) == a.r = 1 /\ a.sym = <<>>
RatEq(a, b) == a.n * b.d = b.n * a.d
RatAdd(a, b) == Num(a.n * b.d + b.n * a.d, a.d * b.d, 1)
IsZero(a) == a.n = 0
IsPositive(a) == a.n > 0

(***************************************************************************)
(* Names (compound identifiers, task names) are strings, kept as sequences *)
(* of characters; sorted() orders them lexicographically by character code.*)
(***************************************************************************)
CharCode(c) ==
  CASE c = "3" -> 51 [] c = "C" -> 67 [] c = "N" -> 78 [] c = "O" -> 79
    [] c = "a" -> 97 [] c = "b" -> 98 [] c = "c" -> 99 [] c = "d" -> 100
    [] OTHER -> 0

NameLess(a, b) ==
  \E k \in 1..(Len(b)) :
    /\ \A j \in 1..(k - 1) : j <= Len(a) /\ a[j] = b[j]
    /\ \/ k = Len(a) + 1
       \/ k <= Len(a) /\ CharCode(a[k]) < CharCode(b[k])

MinName(S) == CHOOSE a \in S : \A b \in S \ {a} : NameLess(a, b)

RECURSIVE SortedKeys(_)
\* sorted(d.keys()) for the key set S of a dict: the smallest name first.
SortedKeys(S) ==
  IF S = {} THEN <<>>
  ELSE <<MinName(S)>> \o SortedKeys(S \ {MinName(S)})

Perms(S) == {s \in [1..Cardinality(S) -> S] : Range(s) = S}

(***************************************************************************)
(* Label/Weight Balancer (utils/preprocess.py, balance_positives).         *)
(* y and W are matrices: sequences of rows, one row per sample.            *)
(***************************************************************************)
Missing == -1

Column(M, t) == [i \in 1..Len(M) |-> M[i][t]]

\* The indices collected by the loop over the samples of one target.
positive_inds(y, t) == {i \in 1..Len(y) : y[i][t] = 1}
negative_inds(y, t) == {i \in 1..Len(y) : y[i][t] = 0}

to_next_target_never(y, t) == FALSE

\* to_next_target: some label of the target is not 0, 1 or -1.
to_next_target(y, t) == \E i \in 1..Len(y) : y[i][t] \notin {0, 1, Missing}

pos_weight_swapped(n_positives, n_negatives) ==
  IF n_positives = 0 THEN Zero
  ELSE IF n_negatives = 0 THEN Zero
  ELSE Num(n_positives, n_negatives, 1)

pos_weight(n_positives, n_negatives) ==
  IF n_positives = 0 THEN Zero ELSE Num(n_negatives, n_positives, 1)

balance_positives(y, W) ==
  [i \in 1..Len(y) |->
    [t \in 1..Len(y[i]) |->
      IF to_next_target(y, t) THEN W[i][t]
      ELSE IF i \in positive_inds(y, t)
        THEN pos_weight(Cardinality(positive_inds(y, t)),
                        Cardinality(negative_inds(y, t)))
      ELSE IF i \in negative_inds(y, t) THEN One
      ELSE W[i][t]]]

(***************************************************************************)
(* Dataset Assembler (utils/preprocess.py, dataset_to_numpy and            *)
(* tensor_dataset_to_numpy).  A dataset is a dict: order is the order in   *)
(* which the dict iterates its keys, labels maps each key to the dict of   *)
(* its labels by task name.                                                *)
(***************************************************************************)
MaxSamples == 3

Identifiers == {<<"C">>, <<"C", "C">>, <<"N">>}

\* The key tensor_dataset_to_numpy reads, "3d_core_pdbbind".
PdbbindTask == <<"3", "d">>
TaskSets == {{PdbbindTask}, {<<"a">>, <<"b">>}}

\* Label values: missing, negative, positive, and a value that is none of them.
Labels == {Missing, 0, 1, 2}

\* datapoint["fingerprint"]: computed from the compound by the featurizer.
Fingerprint(smiles) == <<CharCode(smiles[1]), Len(smiles)>>

KeySets == {S \in SUBSET Identifiers : Cardinality(S) \in 1..MaxSamples}

Keys(dataset) == Range(dataset.order)

\* sorted(dataset.keys())
sorted_smiles(dataset) == SortSeq(dataset.order, NameLess)

\* The rows dataset_to_numpy fills before balancing.
VectorX(dataset) ==
  LET sorted == sorted_smiles(dataset)
  IN [index \in 1..Len(dataset.order) |-> Fingerprint(sorted[index])]

VectorY(dataset) ==
  LET sorted == sorted_smiles(dataset)
      sorted_targets == SortedKeys(dataset.tasks)
  IN [index \in 1..Len(dataset.order) |->
       [t_ind \in 1..Len(sorted_targets) |->
          LET labels == dataset.labels[sorted[index]]
          IN IF labels[sorted_targets[t_ind]] = -1 THEN -1
             ELSE labels[sorted_targets[t_ind]]]]

VectorW(dataset) ==
  LET sorted == sorted_smiles(dataset)
      sorted_targets == SortedKeys(dataset.tasks)
  IN [index \in 1..Len(dataset.order) |->
       [t_ind \in 1..Len(sorted_targets) |->
          LET labels == dataset.labels[sorted[index]]
          IN IF labels[sorted_targets[t_ind]] = -1 THEN Zero ELSE One]]

dataset_to_numpy(dataset, weight_positives) ==
  LET y == VectorY(dataset)
      W == VectorW(dataset)
  IN [X |-> VectorX(dataset),
      y |-> y,
      W |-> IF weight_positives THEN balance_positives(y, W) ELSE W]

\* tensor_dataset_to_numpy enumerates dataset.keys(), not sorted_ids.
tensor_dataset_to_numpy(dataset) ==
  [X |-> [index \in 1..Len(dataset.order) |-> Fingerprint(dataset.order[index])],
   y |-> [index \in 1..Len(dataset.order) |->
            <<dataset.labels[dataset.order[index]][PdbbindTask]>>],
   W |-> [index \in 1..Len(dataset.order) |-> <<One>>]]

NoCall == [fn |-> "none", weight_positives |-> FALSE]
NoDataset == [order |-> <<>>, tasks |-> {}, labels |-> <<>>]

AsIdle ==
  /\ asPc = "idle"
  /\ asDataset = NoDataset
  /\ asCall = NoCall
  /\ asX = <<>> /\ asY = <<>> /\ asW = <<>>

AsInit ==
  /\ asPc = "call"
  /\ \E K \in KeySets, T \in TaskSets :
       \E o \in Perms(K), L \in [K -> [T -> Labels]] :
         asDataset = [order |-> o, tasks |-> T, labels |-> L]
  /\ asCall = NoCall
  /\ asX = <<>> /\ asY = <<>> /\ asW = <<>>

\* to_arrays with datatype "vector": dataset_to_numpy(dataset, weight_positives)
DatasetToNumpy ==
  /\ asPc = "call"
  /\ \E weight_positives \in BOOLEAN :
       LET r == dataset_to_numpy(asDataset, weight_positives)
       IN /\ asX' = r.X /\ asY' = r.y /\ asW' = r.W
          /\ asCall' = [fn |-> "dataset_to_numpy",
                        weight_positives |-> weight_positives]
  /\ asPc' = "returned"
  /\ UNCHANGED <<asDataset, asOthers>>

\* to_arrays with datatype "tensor": tensor_dataset_to_numpy(dataset)
TensorDatasetToNumpy ==
  /\ asPc = "call"
  /\ PdbbindTask \in asDataset.tasks
  /\ LET r == tensor_dataset_to_numpy(asDataset)
     IN asX' = r.X /\ asY' = r.y /\ asW' = r.W
  /\ asCall' = [fn |-> "tensor_dataset_to_numpy", weight_positives |-> FALSE]
  /\ asPc' = "returned"
  /\ UNCHANGED <<asDataset, asOthers>>

\* labels["3d_core_pdbbind"] on a dataset without that task: KeyError.
TensorDatasetToNumpyRaise ==
  /\ asPc = "call"
  /\ PdbbindTask \notin asDataset.tasks
  /\ asCall' = [fn |-> "tensor_dataset_to_numpy", weight_positives |-> FALSE]
  /\ asPc' = "raised"
  /\ UNCHANGED <<asDataset, asX, asY, asW, asOthers>>


(***************************************************************************)
(* A call of balance_positives(y, W) on its own.                           *)
(***************************************************************************)
MaxRows == 3
Targets == 1..2

\* The weights dataset_to_numpy hands over: 0 where the label is missing.
InitialWeights(y) ==
  [i \in 1..Len(y) |-> [t \in 1..Len(y[i]) |->
     IF y[i][t] = -1 THEN Zero ELSE One]]

BpIdle ==
  /\ bpPc = "idle"
  /\ bpY = <<>> /\ bpW0 = <<>> /\ bpW = <<>>

BpInit ==
  /\ bpPc = "call"
  /\ \E n \in 1..MaxRows : bpY \in [1..n -> [Targets -> Labels]]
  /\ bpW0 = InitialWeights(bpY)
  /\ bpW = bpW0

BalancePositives ==
  /\ bpPc = "call"
  /\ bpW' = balance_positives(bpY, bpW)
  /\ bpPc' = "returned"
  /\ UNCHANGED <<bpY, bpW0, bpOthers>>


(***************************************************************************)
(* Splitter and Scaffold Grouper (utils/preprocess.py).                    *)
(* A dataset is a dict: order is the order in which it iterates its keys,  *)
(* scaffold and split give each record's "scaffold" and "split" fields.    *)
(* train and test are dicts whose values are the dataset's own records, so *)
(* each is kept as its set of keys.                                        *)
(***************************************************************************)
MaxKeys == 3

SplitIds == {<<"C">>, <<"C", "C">>, <<"N">>, <<"O">>}
SplitKeySets == {S \in SUBSET SplitIds : Cardinality(S) <= MaxKeys}

AllScaffolds == {"s1", "s2", "s3"}

\* datapoint["split"]: absent, or a string.
NoSplit == [present |-> FALSE, s |-> <<>>]
SplitField(s) == [present |-> TRUE, s |-> s]
SplitFields ==
  {NoSplit,
   SplitField(<<"t", "r", "a", "i", "n">>),
   SplitField(<<"V", "a", "l", "i", "d">>),
   SplitField(<<"t", "e", "s", "t">>),
   SplitField(<<"T", "E", "S", "T">>),
   SplitField(<<"t", "e", "s", "t", "s">>)}

\* str.lower() on the letters that occur.
LowerChar(c) ==
  CASE c = "T" -> "t" [] c = "E" -> "e" [] c = "S" -> "s" [] c = "V" -> "v"
    [] OTHER -> c
Lower_identity(s) == s

Lower(s) == [i \in 1..Len(s) |-> LowerChar(s[i])]

\* frac_train, a fraction n/d of [0, 1].
Frac(n, d) == [n |-> n, d |-> d]
Fracs == {Frac(0, 1), Frac(1, 3), Frac(1, 2), Frac(4, 5), Frac(1, 1)}
DefaultFrac == Frac(4, 5)

\* seed: None, or an integer.
SeedNone == [given |-> FALSE, value |-> 0]
Seed(v) == [given |-> TRUE, value |-> v]
Seeds == {SeedNone} \cup {Seed(v) : v \in 0..2}

\* The state of numpy's global generator, and its step.
RngStates == 0..7
NextRng(r) == (5 * r + 3) % 8

np_random_seed_ignored(seed, r) == {r}

\* np.random.seed(seed): the states the generator can be in afterwards.
np_random_seed(seed, r) ==
  IF seed.given THEN {(3 * seed.value + 1) % 8} ELSE RngStates

Swap(x, i, j) == [x EXCEPT ![i] = x[j], ![j] = x[i]]

RECURSIVE Shuffle(_, _, _)
\* The shuffle of np.random.permutation: positions i, i-1, ..., 2 are each
\* exchanged with a position drawn from 1..i.
Shuffle(x, i, r) ==
  IF i <= 1 THEN [x |-> x, rng |-> r]
  ELSE Shuffle(Swap(x, i, (NextRng(r) % i) + 1), i - 1, NextRng(r))

\* np.random.permutation(keys)
np_random_permutation(keys, r) == Shuffle(keys, Len(keys), r)

\* np.floor(frac_train * len(shuffled))
train_cutoff(frac_train, n) == (frac_train.n * n) \div frac_train.d

\* a > frac_train * n, for an integer a
ExceedsTrainSize(a, frac_train, n) == a * frac_train.d > frac_train.n * n

\* scaffolds.items() before sorting: groups of identifiers in the order the
\* dataset iterates them, the groups in the order items_order of the dict.
ScaffoldKeys(dataset) == {dataset.scaffold[k] : k \in Range(dataset.order)}

ScaffoldItems_overwrite(dataset, items_order) ==
  [g \in 1..Len(items_order) |->
    [scaffold |-> items_order[g],
     elements |->
       LET all == SelectSeq(dataset.order,
                    LAMBDA k : dataset.scaffold[k] = items_order[g])
       IN <<all[Len(all)]>>]]

ScaffoldItems(dataset, items_order) ==
  [g \in 1..Len(items_order) |->
    [scaffold |-> items_order[g],
     elements |-> SelectSeq(dataset.order,
                    LAMBDA k : dataset.scaffold[k] = items_order[g])]]

PositionIn(s, e) == CHOOSE i \in 1..Len(s) : s[i] = e

\* sorted(items, key=lambda x: -len(x[1])): stable, largest group first.
SortBySizeDescending(items) ==
  CHOOSE s \in Perms(Range(items)) :
    \A i, j \in 1..Len(items) : i < j =>
      \/ Len(s[i].elements) > Len(s[j].elements)
      \/ /\ Len(s[i].elements) = Len(s[j].elements)
         /\ PositionIn(items, s[i]) < PositionIn(items, s[j])

scaffold_separate(dataset, items_order) ==
  SortBySizeDescending(ScaffoldItems(dataset, items_order))

NoSplitCall ==
  [fn |-> "none", splittype |-> "", frac_train |-> DefaultFrac, seed |-> SeedNone]
NoSplitDataset == [order |-> <<>>, scaffold |-> <<>>, split |-> <<>>]

SpIdle ==
  /\ spPc = "idle"
  /\ spDataset = NoSplitDataset
  /\ spCall = NoSplitCall
  /\ spTrain = {} /\ spTest = {}
  /\ spScaffolds = <<>> /\ spIdx = 0
  /\ spShuffled = <<>> /\ spRuns = <<>>
  /\ rng = 0

\* A caller holding a dataset whose scaffold fields range over ScaffoldSet
\* and whose split fields range over SplitSet, the generator in a state of
\* RngSet.
SpInit(ScaffoldSet, SplitSet, RngSet) ==
  /\ spPc = "call"
  /\ \E K \in SplitKeySets :
       \E o \in Perms(K), sc \in [K -> ScaffoldSet], sp \in [K -> SplitSet] :
         spDataset = [order |-> o, scaffold |-> sc, split |-> sp]
  /\ spCall = NoSplitCall
  /\ spTrain = {} /\ spTest = {}
  /\ spScaffolds = <<>> /\ spIdx = 0
  /\ spShuffled = <<>> /\ spRuns = <<>>
  /\ rng \in RngSet

N == Len(spDataset.order)

(* ---- train_test_random_split ---- *)
\* One whole call train_test_random_split(dataset, frac_train, seed); the
\* caller makes up to two calls on its dataset.
TrainTestRandomSplit ==
  /\ spPc \in {"call", "returned"}
  /\ Len(spRuns) < 2
  /\ \E frac_train \in Fracs, seed \in Seeds :
       \E seeded \in np_random_seed(seed, rng) :
         LET p == np_random_permutation(spDataset.order, seeded)
             cut == train_cutoff(frac_train, Len(p.x))
             train == {p.x[i] : i \in 1..cut}
             test == {p.x[i] : i \in (cut + 1)..Len(p.x)}
         IN /\ rng' = p.rng
            /\ spShuffled' = p.x
            /\ spTrain' = train
            /\ spTest' = test
            /\ spCall' = [fn |-> "train_test_random_split", splittype |-> "",
                          frac_train |-> frac_train, seed |-> seed]
            /\ spRuns' = Append(spRuns,
                 [frac_train |-> frac_train, seed |-> seed,
                  train |-> train, test |-> test])
  /\ spPc' = "returned"
  /\ UNCHANGED <<spDataset, spScaffolds, spIdx, spOthers>>

(* ---- train_test_scaffold_split ---- *)
\* Entry of train_test_scaffold_split: lines 315-317.
ScaffoldBegin(frac_train, splittype) ==
  /\ \E items_order \in Perms(ScaffoldKeys(spDataset)) :
       spScaffolds' = scaffold_separate(spDataset, items_order)
  /\ spCall' = [fn |-> "train_test_scaffold_split", splittype |-> splittype,
                frac_train |-> frac_train, seed |-> SeedNone]
  /\ spTrain' = {} /\ spTest' = {}
  /\ spIdx' = 1
  /\ spPc' = "scaffold_loop"
  /\ UNCHANGED <<spDataset, spShuffled, spRuns, rng, spOthers>>

TrainTestScaffoldSplit ==
  /\ spPc = "call"
  /\ \E frac_train \in Fracs : ScaffoldBegin(frac_train, "")

\* One iteration of the loop over the groups: the group goes to test.
ScaffoldToTest ==
  /\ spPc = "scaffold_loop"
  /\ spIdx <= Len(spScaffolds)
  /\ LET elements == spScaffolds[spIdx].elements
     IN /\ ExceedsTrainSize(Cardinality(spTrain) + Len(elements),
                            spCall.frac_train, N)
        /\ spTest' = spTest \cup Range(elements)
  /\ spIdx' = spIdx + 1
  /\ UNCHANGED <<spPc, spDataset, spCall, spTrain, spScaffolds, spShuffled,
                 spRuns, rng, spOthers>>

\* One iteration of the loop over the groups: the group goes to train.
ScaffoldToTrain ==
  /\ spPc = "scaffold_loop"
  /\ spIdx <= Len(spScaffolds)
  /\ LET elements == spScaffolds[spIdx].elements
     IN /\ ~ExceedsTrainSize(Cardinality(spTrain) + Len(elements),
                             spCall.frac_train, N)
        /\ spTrain' = spTrain \cup Range(elements)
  /\ spIdx' = spIdx + 1
  /\ UNCHANGED <<spPc, spDataset, spCall, spTest, spScaffolds, spShuffled,
                 spRuns, rng, spOthers>>

ScaffoldReturn ==
  /\ spPc = "scaffold_loop"
  /\ spIdx > Len(spScaffolds)
  /\ spPc' = "returned"
  /\ UNCHANGED <<spDataset, spCall, spTrain, spTest, spScaffolds, spIdx,
                 spShuffled, spRuns, rng, spOthers>>

(* ---- train_test_specified_split ---- *)
SpecifiedBegin(splittype) ==
  /\ spCall' = [fn |-> "train_test_specified_split", splittype |-> splittype,
                frac_train |-> DefaultFrac, seed |-> SeedNone]
  /\ spTrain' = {} /\ spTest' = {}
  /\ spIdx' = 1
  /\ spPc' = "specified_loop"
  /\ UNCHANGED <<spDataset, spScaffolds, spShuffled, spRuns, rng, spOthers>>

TrainTestSpecifiedSplit ==
  /\ spPc = "call"
  /\ SpecifiedBegin("")

\* The record the loop over dataset.iteritems() is at.
smiles == spDataset.order[spIdx]
datapoint_split == spDataset.split[smiles]

InSpecifiedLoop == spPc = "specified_loop" /\ spIdx <= N

RoutesToTrain(field) ==
  Lower(field.s) = <<"t", "r", "a", "i", "n">>
    \/ Lower(field.s) = <<"v", "a", "l", "i", "d">>

RoutesToTest(field) == Lower(field.s) = <<"t", "e", "s", "t">>

SpecifiedUnchanged ==
  UNCHANGED <<spDataset, spCall, spScaffolds, spShuffled, spRuns, rng, spOthers>>

SpecifiedRaiseMissing ==
  /\ InSpecifiedLoop
  /\ ~datapoint_split.present
  /\ spPc' = "raised"
  /\ UNCHANGED <<spTrain, spTest, spIdx>>
  /\ SpecifiedUnchanged

SpecifiedToTrain ==
  /\ InSpecifiedLoop
  /\ datapoint_split.present
  /\ RoutesToTrain(datapoint_split)
  /\ spTrain' = spTrain \cup {smiles}
  /\ spIdx' = spIdx + 1
  /\ UNCHANGED <<spPc, spTest>>
  /\ SpecifiedUnchanged

SpecifiedToTest ==
  /\ InSpecifiedLoop
  /\ datapoint_split.present
  /\ ~RoutesToTrain(datapoint_split)
  /\ RoutesToTest(datapoint_split)
  /\ spTest' = spTest \cup {smiles}
  /\ spIdx' = spIdx + 1
  /\ UNCHANGED <<spPc, spTrain>>
  /\ SpecifiedUnchanged

SpecifiedRaiseImproper ==
  /\ InSpecifiedLoop
  /\ datapoint_split.present
  /\ ~RoutesToTrain(datapoint_split)
  /\ ~RoutesToTest(datapoint_split)
  /\ spPc' = "raised"
  /\ UNCHANGED <<spTrain, spTest, spIdx>>
  /\ SpecifiedUnchanged

SpecifiedReturn ==
  /\ spPc = "specified_loop"
  /\ spIdx > N
  /\ spPc' = "returned"
  /\ UNCHANGED <<spTrain, spTest, spIdx>>
  /\ SpecifiedUnchanged

(* ---- split_dataset ---- *)
SplitTypes == {"random", "scaffold", "specified", "stratified", "Random"}

\* splittype == "random": the argument seed=seed reads a global name that the
\* module never binds, so the call raises NameError.
SplitDatasetRandom ==
  /\ spPc = "call"
  /\ spCall' = [fn |-> "split_dataset", splittype |-> "random",
                frac_train |-> DefaultFrac, seed |-> SeedNone]
  /\ spPc' = "raised"
  /\ UNCHANGED <<spDataset, spTrain, spTest, spScaffolds, spIdx, spShuffled,
                 spRuns, rng, spOthers>>

SplitDatasetScaffold ==
  /\ spPc = "call"
  /\ ScaffoldBegin(DefaultFrac, "scaffold")

SplitDatasetSpecified ==
  /\ spPc = "call"
  /\ SpecifiedBegin("specified")

\* Any other splittype: ValueError("Improper splittype.")
SplitDatasetImproper ==
  /\ spPc = "call"
  /\ \E splittype \in SplitTypes \ {"random", "scaffold", "specified"} :
       spCall' = [fn |-> "split_dataset", splittype |-> splittype,
                  frac_train |-> DefaultFrac, seed |-> SeedNone]
  /\ spPc' = "raised"
  /\ UNCHANGED <<spDataset, spTrain, spTest, spScaffolds, spIdx, spShuffled,
                 spRuns, rng, spOthers>>

(***************************************************************************)
(* Transform Engine, inputs (utils/preprocess.py, transform_inputs).       *)
(* A matrix X is kept by runs of equal rows: counts[k] rows in a row all   *)
(* hold cols[f][k] in feature f, so n_samples is the sum of counts.  The   *)
(* raw features are integers.                                              *)
(***************************************************************************)
trunc == 10

MaxRuns == 2
RunLengths == {1, 101}
FeatureValues == {-11, 0, 5, 11}
FeatureCounts == 0..2
InputOps == {"normalize", "standardize"}
InputOpLists ==
  {<<>>, <<"normalize">>, <<"normalize", "normalize">>, <<"standardize">>,
   <<"normalize", "standardize">>}

RECURSIVE SumSeq(_)
SumSeq(s) == IF Len(s) = 0 THEN 0 ELSE s[1] + SumSeq(Tail(s))

n_samples(X) == SumSeq(X.counts)
n_features(X) == Len(X.cols)

\* v > trunc and v < -trunc for v = n / (d * sqrt(r)).
AboveTrunc(v) == v.n > 0 /\ v.n * v.n > trunc * trunc * v.d * v.d * v.r
BelowTrunc(v) == v.n < 0 /\ v.n * v.n > trunc * trunc * v.d * v.d * v.r

OutOfRange_above(feature_data) ==
  \E k \in 1..Len(feature_data) : AboveTrunc(feature_data[k])

\* np.amax(feature_data) > trunc or np.amin(feature_data) < -trunc
OutOfRange(feature_data) ==
  \E k \in 1..Len(feature_data) :
    AboveTrunc(feature_data[k]) \/ BelowTrunc(feature_data[k])

\* n * mean and n^2 * variance of a column of integers.
ColumnSum(counts, data) ==
  SumSeq([k \in 1..Len(data) |-> counts[k] * data[k].n])
ColumnSquares(counts, data) ==
  SumSeq([k \in 1..Len(data) |-> counts[k] * data[k].n * data[k].n])
ScaledVariance(counts, data) ==
  SumSeq(counts) * ColumnSquares(counts, data)
    - ColumnSum(counts, data) * ColumnSum(counts, data)

Standardized_uncentered(counts, data) ==
  IF ScaledVariance(counts, data) = 0 THEN data
  ELSE [k \in 1..Len(data) |->
         Num(SumSeq(counts) * data[k].n - ColumnSum(counts, data), 1,
             ScaledVariance(counts, data))]

\* feature_data - mean, then / std unless std is 0 (lines 39-42).
Standardized(counts, data) ==
  LET n == SumSeq(counts)
      S == ColumnSum(counts, data)
      Q == ScaledVariance(counts, data)
  IN [k \in 1..Len(data) |->
       IF Q = 0 THEN Num(n * data[k].n - S, n, 1)
       ELSE Num(n * data[k].n - S, 1, Q)]

ClampAboveOnly(v) == IF AboveTrunc(v) THEN IntNum(trunc) ELSE v

\* The two clamping assignments (lines 43-44), on one value.
Clamp(v) ==
  IF AboveTrunc(v) THEN IntNum(trunc)
  ELSE IF BelowTrunc(v) THEN IntNum(-trunc)
  ELSE v

Clamped(data) == [k \in 1..Len(data) |-> Clamp(data[k])]

NoError == ""

RECURSIVE ApplyInputTransforms(_, _, _)
\* The loop over input_transforms for one feature (lines 32-48): the
\* feature's data afterwards, or the error raised.
ApplyInputTransforms(counts, feature_data, input_transforms) ==
  IF Len(input_transforms) = 0 THEN [data |-> feature_data, err |-> NoError]
  ELSE IF input_transforms[1] = "normalize" THEN
    IF Len(feature_data) = 0
      THEN [data |-> feature_data, err |-> "zero-size array"]
    ELSE IF OutOfRange(feature_data) THEN
      LET truncated == Clamped(Standardized(counts, feature_data))
      IN IF OutOfRange(truncated)
           THEN [data |-> truncated, err |-> "Truncation failed"]
           ELSE ApplyInputTransforms(counts, truncated, Tail(input_transforms))
    ELSE ApplyInputTransforms(counts, feature_data, Tail(input_transforms))
  ELSE [data |-> feature_data, err |-> "Unsupported Input Transform"]

TiIdle ==
  /\ tiPc = "idle"
  /\ tiX = [counts |-> <<>>, cols |-> <<>>]
  /\ tiOps = <<>>
  /\ tiZ = <<>>
  /\ tiFeature = 0
  /\ tiErr = NoError

\* transform_inputs(X, input_transforms) is called; Z = np.zeros(np.shape(X)).
TiInit ==
  /\ tiPc = "features"
  /\ \E counts \in SeqsUpTo(RunLengths, MaxRuns), nf \in FeatureCounts :
       \E cols \in [1..nf -> [1..Len(counts) -> FeatureValues]] :
         /\ tiX = [counts |-> counts,
                   cols |-> [f \in 1..nf |->
                              [k \in 1..Len(counts) |-> IntNum(cols[f][k])]]]
         /\ tiZ = [f \in 1..nf |-> [k \in 1..Len(counts) |-> Zero]]
  /\ tiOps \in InputOpLists
  /\ tiFeature = 1
  /\ tiErr = NoError

\* One iteration of the loop over the features that ends at line 49.
TransformInputsFeature ==
  /\ tiPc = "features"
  /\ tiFeature <= n_features(tiX)
  /\ LET r == ApplyInputTransforms(tiX.counts, tiX.cols[tiFeature], tiOps)
     IN /\ r.err = NoError
        /\ tiZ' = [tiZ EXCEPT ![tiFeature] = r.data]
  /\ tiFeature' = tiFeature + 1
  /\ UNCHANGED <<tiPc, tiX, tiOps, tiErr, tiOthers>>

\* One iteration of the loop over the features that raises.
TransformInputsRaise ==
  /\ tiPc = "features"
  /\ tiFeature <= n_features(tiX)
  /\ LET r == ApplyInputTransforms(tiX.counts, tiX.cols[tiFeature], tiOps)
     IN /\ r.err # NoError
        /\ tiErr' = r.err
  /\ tiPc' = "raised"
  /\ UNCHANGED <<tiX, tiOps, tiZ, tiFeature, tiOthers>>

\* return Z
TransformInputsReturn ==
  /\ tiPc = "features"
  /\ tiFeature > n_features(tiX)
  /\ tiPc' = "returned"
  /\ UNCHANGED <<tiX, tiOps, tiZ, tiFeature, tiErr, tiOthers>>

(***************************************************************************)
(* Transform Engine, outputs (utils/preprocess.py, transform_outputs).     *)
(* y and W are matrices of n rows, one column per task of TaskColumns;     *)
(* output_transforms is a dict from task names to lists of ops.  y is      *)
(* rewritten in place, one op at a time.                                   *)
(***************************************************************************)
MaxOutRows == 3

TaskColumns == <<<<"a">>, <<"b">>>>

\* The rows of y and W the callers hand over: a label and its weight for
\* each of the two tasks.
Row(ya, wa, yb, wb) == [y |-> <<IntNum(ya), IntNum(yb)>>, W |-> <<wa, wb>>]
OutputRows ==
  {Row(1, One, 1, One), Row(2, One, 1, One), Row(5, One, 2, Zero),
   Row(1, Zero, 2, One), Row(2, Zero, 2, Zero)}

OutputOpLists ==
  {<<>>, <<"normalize">>, <<"log">>, <<"1+max-val", "normalize">>,
   <<"normalize", "sqrt">>}

RECURSIVE GCD(_, _)
GCD(a, b) == IF b = 0 THEN a ELSE GCD(b, a % b)
Abs(k) == IF k < 0 THEN -k ELSE k

\* The rational n/d in lowest terms, d > 0.
Rat(n, d) ==
  LET g == GCD(Abs(n), Abs(d))
      sgn == IF d < 0 THEN -1 ELSE 1
  IN Num(sgn * (n \div g), sgn * (d \div g), 1)

RatSub(a, b) == Rat(a.n * b.d - b.n * a.d, a.d * b.d)
RatMul(a, b) == Rat(a.n * b.n, a.d * b.d)
RatLess(a, b) == a.n * b.d < b.n * a.d

\* np.amax of a non-empty column of rationals.
RatMax(col) ==
  LET k == CHOOSE i \in 1..Len(col) : \A j \in 1..Len(col) : ~RatLess(col[i], col[j])
  IN col[k]

Symbolic(v, op) == [v EXCEPT !.sym = Append(@, op)]

SetColumn(M, t, col) == [i \in 1..Len(M) |-> [M[i] EXCEPT ![t] = col[i]]]

\* np.log(y[:, task])
LogColumn(col) == [i \in 1..Len(col) |-> Symbolic(col[i], "log")]

\* 1 + np.amax(y[:, task]) - y[:, task]
MaxValColumn(col) ==
  IF \A i \in 1..Len(col) : IsRational(col[i])
    THEN [i \in 1..Len(col) |->
            RatSub(RatAdd(One, RatMax(col)), col[i])]
    ELSE [i \in 1..Len(col) |-> Symbolic(col[i], "1+max-val")]

nonzero_all(W, task) == {i \in 1..Len(W) : TRUE}

\* nonzero = (W[:, task] != 0)
nonzero(W, task) == {i \in 1..Len(W) : ~IsZero(W[i][task])}

RECURSIVE SumSet(_, _)
\* The sum of the rationals col[i], i in I.
SumSet(col, I) ==
  IF I = {} THEN Zero
  ELSE LET i == CHOOSE j \in I : TRUE
           r == RatAdd(col[i], SumSet(col, I \ {i}))
       IN Rat(r.n, r.d)

\* np.mean(task_data[nonzero]) of rationals
MeanOf(col, I) == RatMul(SumSet(col, I), Rat(1, Cardinality(I)))

\* task_data[nonzero] - mean
CenteredColumn(col, I) ==
  IF I = {} THEN col
  ELSE IF \A i \in I : IsRational(col[i])
    THEN LET mean == MeanOf(col, I)
         IN [i \in 1..Len(col) |->
              IF i \in I THEN RatSub(col[i], mean) ELSE col[i]]
    ELSE [i \in 1..Len(col) |->
            IF i \in I THEN Symbolic(col[i], "center") ELSE col[i]]

\* np.std(task_data[nonzero]) ** 2 of rationals: the mean of the squares of
\* the centered values.
VarianceOf(col, I) ==
  LET c == CenteredColumn(col, I)
  IN MeanOf([i \in 1..Len(col) |-> RatMul(c[i], c[i])], I)

\* std == 0.  (On no entries at all std is nan, which is not 0.)
StdIsZero(col, I) ==
  IF I = {} THEN FALSE
  ELSE IF \A i \in I : IsRational(col[i]) THEN IsZero(VarianceOf(col, I))
  ELSE \A i, j \in I : col[i] = col[j]

\* task_data[nonzero] / std, on the centered column c of col.
ScaledColumn(col, I) ==
  LET c == CenteredColumn(col, I)
  IN IF I = {} THEN col
     ELSE IF \A i \in I : IsRational(col[i])
       THEN LET var == VarianceOf(col, I)
            IN [i \in 1..Len(col) |->
                 IF i \in I THEN Num(c[i].n * var.d, c[i].d, var.n * var.d)
                 ELSE col[i]]
       ELSE [i \in 1..Len(col) |->
              IF i \in I THEN Symbolic(c[i], "scale") ELSE col[i]]

ToIdle ==
  /\ toPc = "idle"
  /\ toY = <<>> /\ toY0 = <<>> /\ toW = <<>>
  /\ toTransforms = <<>>
  /\ endpoints = <<>>
  /\ toTask = 0 /\ toOp = 0
  /\ toErr = NoError

\* transform_outputs(y, W, output_transforms) is called and has sorted the
\* targets (lines 67-69).
ToInit ==
  /\ toPc = "ops"
  /\ \E n \in 0..MaxOutRows :
       \E rows \in [1..n -> OutputRows] :
         /\ toY = [i \in 1..n |-> rows[i].y]
         /\ toW = [i \in 1..n |-> rows[i].W]
  /\ toY0 = toY
  /\ \E K \in SUBSET Range(TaskColumns) : toTransforms \in [K -> OutputOpLists]
  /\ endpoints = SortedKeys(DOMAIN toTransforms)
  /\ toTask = 1 /\ toOp = 1
  /\ toErr = NoError

\* The op the loops are at.
InOps == toPc = "ops" /\ toTask <= Len(endpoints)
output_transforms == toTransforms[endpoints[toTask]]
HasOp == InOps /\ toOp <= Len(output_transforms)
output_transform == output_transforms[toOp]
task_data == Column(toY, toTask)

ToUnchanged == UNCHANGED <<toY0, toW, toTransforms, endpoints, toOthers>>

OutputLog ==
  /\ HasOp
  /\ output_transform = "log"
  /\ toY' = SetColumn(toY, toTask, LogColumn(task_data))
  /\ toOp' = toOp + 1
  /\ UNCHANGED <<toPc, toTask, toErr>>
  /\ ToUnchanged

OutputMaxVal ==
  /\ HasOp
  /\ output_transform = "1+max-val"
  /\ Len(toY) > 0
  /\ toY' = SetColumn(toY, toTask, MaxValColumn(task_data))
  /\ toOp' = toOp + 1
  /\ UNCHANGED <<toPc, toTask, toErr>>
  /\ ToUnchanged

\* np.amax of a column without rows raises ValueError.
OutputMaxValEmpty ==
  /\ HasOp
  /\ output_transform = "1+max-val"
  /\ Len(toY) = 0
  /\ toPc' = "raised"
  /\ toErr' = "zero-size array"
  /\ UNCHANGED <<toY, toTask, toOp>>
  /\ ToUnchanged

\* normalize with std != 0: centered, then scaled.
OutputNormalize ==
  /\ HasOp
  /\ output_transform = "normalize"
  /\ ~StdIsZero(task_data, nonzero(toW, toTask))
  /\ toY' = SetColumn(toY, toTask, ScaledColumn(task_data, nonzero(toW, toTask)))
  /\ toOp' = toOp + 1
  /\ UNCHANGED <<toPc, toTask, toErr>>
  /\ ToUnchanged

\* normalize with std == 0: centered (line 88), then continue (line 92).
OutputNormalizeSkipped ==
  /\ HasOp
  /\ output_transform = "normalize"
  /\ StdIsZero(task_data, nonzero(toW, toTask))
  /\ toY' = SetColumn(toY, toTask, CenteredColumn(task_data, nonzero(toW, toTask)))
  /\ toOp' = toOp + 1
  /\ UNCHANGED <<toPc, toTask, toErr>>
  /\ ToUnchanged

OutputUnsupported ==
  /\ HasOp
  /\ output_transform \notin {"log", "1+max-val", "normalize"}
  /\ toPc' = "raised"
  /\ toErr' = "Unsupported Output transform"
  /\ UNCHANGED <<toY, toTask, toOp>>
  /\ ToUnchanged

\* The ops of one task are exhausted: on to the next target.
OutputNextTask ==
  /\ InOps
  /\ toOp > Len(output_transforms)
  /\ toTask' = toTask + 1
  /\ toOp' = 1
  /\ UNCHANGED <<toPc, toY, toErr>>
  /\ ToUnchanged

\* return y
OutputReturn ==
  /\ toPc = "ops"
  /\ toTask > Len(endpoints)
  /\ toPc' = "returned"
  /\ UNCHANGED <<toY, toTask, toOp, toErr>>
  /\ ToUnchanged

(***************************************************************************)
(* Target Builder (scripts/process_dataset.py, generate_targets).          *)
(* The build reads rows with the fields "smiles" (type string) and "val"   *)
(* (type float, the prediction endpoint).  A molecule is kept as the       *)
(* canonical string of its structure; the strings that occur are linear    *)
(* chains of the atoms C and O, read the same from either end.             *)
(***************************************************************************)
MaxRawRows == 4

\* raw_row: None, or the row's raw fields.
NullRow == [null |-> TRUE, smiles |-> None, val |-> None]
RawRow(sm, v) == [null |-> FALSE, smiles |-> sm, val |-> v]
RawSmiles == {None, Str(<<"C", "C">>), Str(<<"O", "C">>), Str(<<"X">>)}
RawVals == {Str(<<"5">>), Str(<<"a">>)}
RawRows == {NullRow} \cup {RawRow(sm, v) : sm \in RawSmiles, v \in RawVals}

\* threshold: None, or a number.
NoThreshold == [given |-> FALSE, value |-> 0]
Threshold(v) == [given |-> TRUE, value |-> v]
Thresholds == {NoThreshold, Threshold(1)}

Atoms == {"C", "O"}
Reverse(s) == [i \in 1..Len(s) |-> s[Len(s) + 1 - i]]

\* Chem.MolFromSmiles(s): None for a string that is no structure.
NoMol == [parsed |-> FALSE, structure |-> <<>>]
MolFromSmiles(s) ==
  IF \A i \in 1..Len(s) : s[i] \in Atoms
    THEN [parsed |-> TRUE,
          structure |-> IF NameLess(Reverse(s), s) THEN Reverse(s) ELSE s]
    ELSE NoMol

\* smiles.get_smiles(mol): the canonical string of the molecule.
get_smiles(mol) == mol.structure

\* "C"*row_index
Placeholder(k) == [i \in 1..k |-> "C"]

\* 1 if raw_val > threshold else 0
Binarized(raw_val, thr) ==
  IF raw_val.tag = "float" /\ raw_val.num > thr.value * raw_val.den
    THEN FloatVal(1, 1) ELSE FloatVal(0, 1)

TbIdle ==
  /\ tbPc = "idle"
  /\ tbRawRows = <<>>
  /\ threshold = NoThreshold
  /\ row_index = 0
  /\ tbRows = <<>>
  /\ tbMols = <<>>

\* generate_targets is called: rows, mols = [], [] (line 176).
TbInit ==
  /\ tbPc = "rows"
  /\ tbRawRows \in SeqsUpTo(RawRows, MaxRawRows)
  /\ threshold \in Thresholds
  /\ row_index = 0
  /\ tbRows = <<>>
  /\ tbMols = <<>>

\* The row the loop over enumerate(get_rows(...)) is at.
InRows == tbPc = "rows" /\ row_index < Len(tbRawRows)
raw_row == tbRawRows[row_index + 1]

\* The fields of the row after the loop over the fields (lines 183-188).
RowFields(raw, thr) ==
  [smiles |-> process_field(raw.smiles, "string"),
   val |-> IF thr.given THEN Binarized(process_field(raw.val, "float"), thr)
           ELSE process_field(raw.val, "float")]

RowMol_placeholder(raw, k) == MolFromSmiles(Placeholder(k))

\* The molecule of the row at index k (lines 191-195).
RowMol(raw, k) ==
  IF RowFields(raw, NoThreshold).smiles = NoneVal
    THEN MolFromSmiles(Placeholder(k))
    ELSE MolFromSmiles(RowFields(raw, NoThreshold).smiles.s)

TbUnchanged == UNCHANGED <<tbRawRows, threshold, tbOthers>>

\* if row_index == 0 or raw_row is None: continue
GenerateTargetsSkip ==
  /\ InRows
  /\ row_index = 0 \/ raw_row.null
  /\ row_index' = row_index + 1
  /\ UNCHANGED <<tbPc, tbRows, tbMols>>
  /\ TbUnchanged

\* One iteration that retains the row.
GenerateTargetsAppend ==
  /\ InRows
  /\ ~(row_index = 0 \/ raw_row.null)
  /\ LET mol == RowMol(raw_row, row_index)
     IN /\ mol.parsed
        /\ tbMols' = Append(tbMols, mol)
        /\ tbRows' = Append(tbRows,
             [RowFields(raw_row, threshold) EXCEPT
                !.smiles = StrVal(get_smiles(mol))])
  /\ row_index' = row_index + 1
  /\ UNCHANGED tbPc
  /\ TbUnchanged

\* MolFromSmiles returned None: get_smiles(None) raises.
GenerateTargetsRaise ==
  /\ InRows
  /\ ~(row_index = 0 \/ raw_row.null)
  /\ ~RowMol(raw_row, row_index).parsed
  /\ tbPc' = "raised"
  /\ UNCHANGED <<row_index, tbRows, tbMols>>
  /\ TbUnchanged

\* The record table and the structure file are written (lines 201-208).
GenerateTargetsReturn ==
  /\ tbPc = "rows"
  /\ row_index >= Len(tbRawRows)
  /\ tbPc' = "returned"
  /\ UNCHANGED <<row_index, tbRows, tbMols>>
  /\ TbUnchanged

(***************************************************************************)
(* Specifications, one per component.                                      *)
(***************************************************************************)
\* Every component but c is idle.
IdleBut(c) ==
  /\ c = "fp" \/ FpIdle
  /\ c = "as" \/ AsIdle
  /\ c = "bp" \/ BpIdle
  /\ c = "sp" \/ SpIdle
  /\ c = "ti" \/ TiIdle
  /\ c = "to" \/ ToIdle
  /\ c = "tb" \/ TbIdle
InitParse == FpInit /\ IdleBut("fp")
NextParse == ProcessFieldReturn \/ ProcessFieldRaise
SpecParse == InitParse /\ [][NextParse]_vars

InitAssemble == AsInit /\ IdleBut("as")
NextAssemble ==
  DatasetToNumpy \/ TensorDatasetToNumpy \/ TensorDatasetToNumpyRaise
SpecAssemble == InitAssemble /\ [][NextAssemble]_vars

InitBalance == BpInit /\ IdleBut("bp")
NextBalance == BalancePositives
SpecBalance == InitBalance /\ [][NextBalance]_vars

InitRandom == SpInit({"s1"}, {NoSplit}, {0, 5}) /\ IdleBut("sp")
NextRandom == TrainTestRandomSplit
SpecRandom == InitRandom /\ [][NextRandom]_vars

InitScaffold == SpInit(AllScaffolds, {NoSplit}, {0}) /\ IdleBut("sp")
NextScaffold ==
  TrainTestScaffoldSplit \/ ScaffoldToTest \/ ScaffoldToTrain \/ ScaffoldReturn
SpecScaffold == InitScaffold /\ [][NextScaffold]_vars

InitSpecified == SpInit({"s1"}, SplitFields, {0}) /\ IdleBut("sp")
NextSpecified ==
  \/ TrainTestSpecifiedSplit
  \/ SpecifiedRaiseMissing
  \/ SpecifiedToTrain
  \/ SpecifiedToTest
  \/ SpecifiedRaiseImproper
  \/ SpecifiedReturn
SpecSpecified == InitSpecified /\ [][NextSpecified]_vars

\* split_dataset(dataset, splittype) and the splitters it calls.
InitSplit ==
  /\ SpInit({"s1", "s2"},
            {NoSplit, SplitField(<<"t", "r", "a", "i", "n">>),
             SplitField(<<"T", "E", "S", "T">>),
             SplitField(<<"t", "e", "s", "t", "s">>)},
            {0})
  /\ IdleBut("sp")
NextSplit ==
  \/ SplitDatasetRandom
  \/ SplitDatasetScaffold
  \/ SplitDatasetSpecified
  \/ SplitDatasetImproper
  \/ ScaffoldToTest
  \/ ScaffoldToTrain
  \/ ScaffoldReturn
  \/ SpecifiedRaiseMissing
  \/ SpecifiedToTrain
  \/ SpecifiedToTest
  \/ SpecifiedRaiseImproper
  \/ SpecifiedReturn
SpecSplit == InitSplit /\ [][NextSplit]_vars

InitInputs == TiInit /\ IdleBut("ti")
NextInputs ==
  TransformInputsFeature \/ TransformInputsRaise \/ TransformInputsReturn
SpecInputs == InitInputs /\ [][NextInputs]_vars

InitOutputs == ToInit /\ IdleBut("to")
NextOutputs ==
  \/ OutputLog
  \/ OutputMaxVal
  \/ OutputMaxValEmpty
  \/ OutputNormalize
  \/ OutputNormalizeSkipped
  \/ OutputUnsupported
  \/ OutputNextTask
  \/ OutputReturn
SpecOutputs == InitOutputs /\ [][NextOutputs]_vars

InitTargets == TbInit /\ IdleBut("tb")
NextTargets ==
  \/ GenerateTargetsSkip
  \/ GenerateTargetsAppend
  \/ GenerateTargetsRaise
  \/ GenerateTargetsReturn
SpecTargets == InitTargets /\ [][NextTargets]_vars

(***************************************************************************)
(* Claims.                                                                 *)
(***************************************************************************)
RECURSIVE SumOver(_, _, _)
\* Sum of column t of W over the rows of I.
SumOver(W, I, t) ==
  IF I = {} THEN Zero
  ELSE LET i == CHOOSE j \in I : TRUE
       IN RatAdd(W[i][t], SumOver(W, I \ {i}, t))

VectorReturned ==
  asPc = "returned" /\ asCall.fn = "dataset_to_numpy"

(***************************************************************************)
(* C1: the arrays dataset_to_numpy returns with its default balancing step *)
(* satisfy, for every compound i and task t, W[i,t] = 0 iff y[i,t] = -1,   *)
(* and W[i,t] > 0 otherwise.                                               *)
(***************************************************************************)
C1_WeightZeroIffMissing ==
  (VectorReturned /\ asCall.weight_positives) =>
    \A i \in 1..Len(asY) : \A t \in 1..Len(asY[i]) :
      /\ IsZero(asW[i][t]) <=> asY[i][t] = -1
      /\ asY[i][t] # -1 => IsPositive(asW[i][t])

(***************************************************************************)
(* C2: after balance_positives(y, W), in every task column whose labels    *)
(* are all 0, 1 or -1 and that has a label 1 and a label 0, the weights of *)
(* the rows labelled 1 sum to the same as the weights of the rows labelled *)
(* 0: each positive row weighs n_negatives/n_positives, each negative 1.   *)
(***************************************************************************)
C2_Balanceable(t) ==
  /\ \A i \in 1..Len(bpY) : bpY[i][t] \in {0, 1, -1}
  /\ \E i \in 1..Len(bpY) : bpY[i][t] = 1
  /\ \E i \in 1..Len(bpY) : bpY[i][t] = 0

C2_BalancedSums ==
  bpPc = "returned" =>
    \A t \in Targets : C2_Balanceable(t) =>
      LET pos == {i \in 1..Len(bpY) : bpY[i][t] = 1}
          neg == {i \in 1..Len(bpY) : bpY[i][t] = 0}
      IN /\ RatEq(SumOver(bpW, pos, t), SumOver(bpW, neg, t))
         /\ \A i \in pos :
              RatEq(bpW[i][t], Num(Cardinality(neg), Cardinality(pos), 1))
         /\ \A i \in neg : RatEq(bpW[i][t], One)

\* A balanced column with two positives and one negative.
C2_Witness ==
  /\ bpPc = "returned"
  /\ \E t \in Targets :
       /\ C2_Balanceable(t)
       /\ Cardinality({i \in 1..Len(bpY) : bpY[i][t] = 1}) = 2
       /\ Cardinality({i \in 1..Len(bpY) : bpY[i][t] = 0}) = 1

(***************************************************************************)
(* C3: for every dataset and every frac_train in [0, 1] the scaffold split *)
(* returns (train, test) such that no scaffold key occurs on a record of   *)
(* train and on a record of test, train and test share no identifier, and  *)
(* len(train) + len(test) = len(dataset).                                  *)
(***************************************************************************)
ScaffoldReturned ==
  spPc = "returned" /\ spCall.fn = "train_test_scaffold_split"

C3_ScaffoldSplitPartition ==
  ScaffoldReturned =>
    /\ \A a \in spTrain, b \in spTest :
         spDataset.scaffold[a] # spDataset.scaffold[b]
    /\ spTrain \cap spTest = {}
    /\ Cardinality(spTrain) + Cardinality(spTest) = Len(spDataset.order)

\* A split of three scaffold groups, of which some went to each side.
C3_Witness ==
  /\ ScaffoldReturned
  /\ Len(spScaffolds) >= 2
  /\ Len(spDataset.order) = 3
  /\ spTrain # {} /\ spTest # {}

(***************************************************************************)
(* C4: the random split with seed s puts the first floor(frac_train * N)   *)
(* keys of the seed-determined permutation of all N keys into train and    *)
(* the others into test: train and test are disjoint and together hold     *)
(* every key once, and two invocations with the same seed on the same      *)
(* dataset return the same train and test key sets.                        *)
(***************************************************************************)
C4_RandomSplit ==
  (spPc = "returned" /\ spCall.fn = "train_test_random_split") =>
    LET keys == Range(spDataset.order)
        n == Len(spDataset.order)
        cut == (spCall.frac_train.n * n) \div spCall.frac_train.d
    IN /\ Len(spShuffled) = n /\ Range(spShuffled) = keys
       /\ spTrain = {spShuffled[i] : i \in 1..cut}
       /\ spTest = keys \ spTrain
       /\ Cardinality(spTrain) = cut
       /\ Cardinality(spTrain) + Cardinality(spTest) = n
       /\ \A i, j \in 1..Len(spRuns) :
            (/\ spRuns[i].seed.given
             /\ spRuns[i].seed = spRuns[j].seed
             /\ spRuns[i].frac_train = spRuns[j].frac_train) =>
              /\ spRuns[i].train = spRuns[j].train
              /\ spRuns[i].test = spRuns[j].test

\* Two calls with the same seed, each cutting the keys into two non-empty parts.
C4_Witness ==
  /\ spPc = "returned"
  /\ Len(spRuns) = 2
  /\ spRuns[1].seed.given /\ spRuns[1].seed = spRuns[2].seed
  /\ spRuns[1].frac_train = spRuns[2].frac_train
  /\ Len(spDataset.order) = 3
  /\ spRuns[2].train # {} /\ spRuns[2].test # {}

(***************************************************************************)
(* C5: split_dataset(dataset, policy) returns the (train, test) pair of    *)
(* the matching splitter for each of the policy names 'random', 'scaffold' *)
(* and 'specified', and raises a configuration error, returning nothing,   *)
(* for every other policy name.                                            *)
(***************************************************************************)
KnownSplitTypes == {"random", "scaffold", "specified"}

C5_SplitDatasetDispatch ==
  /\ (spPc = "raised" /\ spCall.fn = "split_dataset") =>
       spCall.splittype \notin KnownSplitTypes
  /\ (spPc # "call" /\ spCall.splittype \notin KnownSplitTypes \cup {""}) =>
       (spPc = "raised" /\ spCall.fn = "split_dataset")
  /\ (spPc = "returned" /\ spCall.splittype = "random") =>
       spCall.fn = "train_test_random_split"
  /\ (spPc = "returned" /\ spCall.splittype = "scaffold") =>
       spCall.fn = "train_test_scaffold_split"
  /\ (spPc = "returned" /\ spCall.splittype = "specified") =>
       spCall.fn = "train_test_specified_split"

(***************************************************************************)
(* C6: the specified split routes every record whose 'split' field is,     *)
(* whatever its case, 'train' or 'valid' to train and every record whose   *)
(* field is 'test' to test; it raises, returning no partition, as soon as  *)
(* a record lacks the field or carries another value; when it returns,     *)
(* train and test are disjoint and together hold every key.                *)
(***************************************************************************)
C6_TrainSpellings ==
  {SplitField(<<"t", "r", "a", "i", "n">>), SplitField(<<"V", "a", "l", "i", "d">>)}
C6_TestSpellings ==
  {SplitField(<<"t", "e", "s", "t">>), SplitField(<<"T", "E", "S", "T">>)}
C6_Good(k) ==
  spDataset.split[k] \in C6_TrainSpellings \cup C6_TestSpellings

\* The records the loop has gone through.
C6_Done == {spDataset.order[i] : i \in 1..(spIdx - 1)}

C6_SpecifiedSplit ==
  (spCall.fn = "train_test_specified_split" /\ spPc # "call") =>
    /\ spTrain = {k \in C6_Done : spDataset.split[k] \in C6_TrainSpellings}
    /\ spTest = {k \in C6_Done : spDataset.split[k] \in C6_TestSpellings}
    /\ \A k \in C6_Done : C6_Good(k)
    /\ spPc = "raised" => ~C6_Good(spDataset.order[spIdx])
    /\ spPc = "returned" =>
         /\ \A k \in Range(spDataset.order) : C6_Good(k)
         /\ spTrain \cap spTest = {}
         /\ spTrain \cup spTest = Range(spDataset.order)

\* A returned split that routed 'Valid' to train and 'TEST' to test.
C6_Witness ==
  /\ spPc = "returned" /\ spCall.fn = "train_test_specified_split"
  /\ \E k \in spTrain : spDataset.split[k] = SplitField(<<"V", "a", "l", "i", "d">>)
  /\ \E k \in spTest : spDataset.split[k] = SplitField(<<"T", "E", "S", "T">>)

(***************************************************************************)
(* C7: for every feature matrix X and every list of supported input ops,   *)
(* every value of the matrix transform_inputs returns lies in [-10, 10].   *)
(* Amended: for every X and every non-empty list of supported input ops    *)
(* (a list that holds 'normalize'), every value of the returned matrix     *)
(* lies in [-10, 10]; with the empty list the matrix is returned as given. *)
(***************************************************************************)
C7_InBounds(v) ==
  v.sym = <<>> /\ v.n * v.n <= trunc * trunc * v.d * v.d * v.r

C7_Supported == \A i \in 1..Len(tiOps) : tiOps[i] = "normalize"

C7_ZInBounds ==
  \A f \in 1..Len(tiZ) : \A k \in 1..Len(tiZ[f]) : C7_InBounds(tiZ[f][k])

\* The claim as stated.
C7_Original == (tiPc = "returned" /\ C7_Supported) => C7_ZInBounds

C7_BoundedAfterNormalize ==
  (tiPc = "returned" /\ C7_Supported /\ Len(tiOps) > 0) => C7_ZInBounds

\* A returned matrix in which normalize truncated a value at each bound.
C7_Witness ==
  /\ tiPc = "returned" /\ C7_Supported /\ Len(tiOps) > 0
  /\ \E f \in 1..Len(tiZ) : \E k \in 1..Len(tiZ[f]) : tiZ[f][k] = IntNum(trunc)
  /\ \E f \in 1..Len(tiZ) : \E k \in 1..Len(tiZ[f]) : tiZ[f][k] = IntNum(-trunc)

(***************************************************************************)
(* C8: the Dataset Assembler places the compounds in rows by ascending     *)
(* sort of their identifier, for the vector and for the tensor datatype:   *)
(* row k of X and y holds the features and labels of the k-th smallest     *)
(* identifier, whatever the iteration order of the dataset mapping.        *)
(***************************************************************************)
C8_RowOf(k) == SortedKeys(Keys(asDataset))[k]

C8_RowsSortedByIdentifier ==
  asPc = "returned" =>
    \A k \in 1..Len(asDataset.order) :
      /\ asX[k] = Fingerprint(C8_RowOf(k))
      /\ \A t \in 1..Len(asY[k]) :
           asY[k][t] =
             asDataset.labels[C8_RowOf(k)][SortedKeys(asDataset.tasks)[t]]

(***************************************************************************)
(* C10: the output op normalize changes only the entries of its task       *)
(* column whose weight in W is nonzero: every y[i,t] with W[i,t] = 0 has   *)
(* the same value after normalize is applied to task t as before, whatever *)
(* the values of the weighted entries.                                     *)
(***************************************************************************)
\* The step about to be taken applies normalize to column toTask.
C10_AtNormalize == HasOp /\ output_transform = "normalize"

C10_NormalizeFrame ==
  [][C10_AtNormalize =>
       \A i \in 1..Len(toY) : \A t \in 1..Len(toY[i]) :
         (t # toTask \/ IsZero(toW[i][t])) => toY'[i][t] = toY[i][t]]_vars

\* normalize has just rewritten the weighted entries of the first column,
\* which also holds an entry of weight zero.
C10_Witness ==
  /\ toPc = "ops" /\ toTask = 1 /\ toOp = 2
  /\ Len(endpoints) >= 1
  /\ toTransforms[endpoints[1]] = <<"normalize">>
  /\ \E i \in 1..Len(toY) : IsZero(toW[i][1]) /\ toY[i][1] = toY0[i][1]
  /\ \E j \in 1..Len(toY) : ~IsZero(toW[j][1]) /\ toY[j][1] # toY0[j][1]

(***************************************************************************)
(* C9: with type float the Field Parser returns the numeric value of every *)
(* well-formed numeric string, returns the not-a-number sentinel for every *)
(* string that fails coercion and contains '>', '<' or '-', and raises     *)
(* (returns no value) for every other string that fails coercion.          *)
(***************************************************************************)
C9_Censored(s) == Contains(s, ">") \/ Contains(s, "<") \/ Contains(s, "-")

C9_FloatParseContract ==
  (fpPc \in {"returned", "raised"} /\ fpType = "float" /\ fpData # None) =>
    /\ FloatAccepts(fpData.s) =>
         (fpPc = "returned" /\ fpResult = FloatOf(fpData.s))
    /\ (~FloatAccepts(fpData.s) /\ C9_Censored(fpData.s)) =>
         (fpPc = "returned" /\ fpResult.tag = "nan")
    /\ (~FloatAccepts(fpData.s) /\ ~C9_Censored(fpData.s)) =>
         fpPc = "raised"

(***************************************************************************)
(* C11: transform_inputs and transform_outputs raise a configuration error *)
(* instead of returning an array whenever a declared op is not a supported *)
(* one (for inputs anything but 'normalize'; for outputs anything but      *)
(* 'log', '1+max-val', 'normalize'), for every input matrix, one with no   *)
(* columns or no rows included.                                            *)
(***************************************************************************)
C11_OutputsSupported ==
  \A target \in DOMAIN toTransforms :
    \A i \in 1..Len(toTransforms[target]) :
      toTransforms[target][i] \in {"log", "1+max-val", "normalize"}

C11_UnsupportedOpRaises ==
  /\ tiPc = "returned" => C7_Supported
  /\ toPc = "returned" => C11_OutputsSupported

(***************************************************************************)
(* C12: generate_targets skips the row at index 0 and every null row, and  *)
(* for every other row appends exactly one record and one structure entry: *)
(* the record list and the structure list always have equal length and the *)
(* k-th structure entry belongs to the k-th retained row in source order.  *)
(***************************************************************************)
\* The positions in the source, in order, of the rows gone through that are
\* neither the first row nor null.
C12_Retained ==
  SelectSeq([p \in 1..row_index |-> p],
            LAMBDA p : p # 1 /\ ~tbRawRows[p].null)

\* The structure the row at position p of the source stands for.
C12_StructureOf(p) ==
  LET sm == tbRawRows[p].smiles
  IN IF sm = None THEN [i \in 1..(p - 1) |-> "C"]
     ELSE IF sm.s = <<"O", "C">> THEN <<"C", "O">>
     ELSE sm.s

C12_OneEntryPerRetainedRow ==
  tbPc # "idle" =>
    /\ Len(tbRows) = Len(tbMols)
    /\ Len(tbRows) = Len(C12_Retained)
    /\ \A k \in 1..Len(tbMols) :
         /\ tbMols[k].structure = C12_StructureOf(C12_Retained[k])
         /\ tbRows[k].smiles = StrVal(C12_StructureOf(C12_Retained[k]))

\* A finished build that skipped a first row holding data and a null row and
\* retained two rows of different structures.
C12_Witness ==
  /\ tbPc = "returned"
  /\ Len(tbRawRows) >= 1
  /\ ~tbRawRows[1].null
  /\ \E p \in 2..Len(tbRawRows) : tbRawRows[p].null
  /\ Len(tbMols) = 2
  /\ tbMols[1] # tbMols[2]

(***************************************************************************)
(* C13: the scaffold split consumes the groups in descending size order    *)
(* and, once a group has been diverted to test because adding it would     *)
(* make train larger than frac_train * N, that group and every group       *)
(* consumed after it go to test: no group processed after the first        *)
(* diverted group is added to train.                                       *)
(***************************************************************************)
C13_InTrain(g) == Range(spScaffolds[g].elements) \subseteq spTrain

C13_NoTrainAfterDiverted ==
  (spCall.fn = "train_test_scaffold_split" /\ spPc # "call") =>
    /\ \A g, h \in 1..Len(spScaffolds) : g < h =>
         Len(spScaffolds[g].elements) >= Len(spScaffolds[h].elements)
    /\ \A g, h \in 1..(spIdx - 1) :
         (g < h /\ C13_InTrain(h)) => C13_InTrain(g)

(***************************************************************************)
(* C14: in transform_inputs with op normalize, a feature column whose      *)
(* standard deviation is 0 comes out equal to the input column with each   *)
(* value clamped to [-10, 10] and with no other change; a constant column  *)
(* whose value lies outside [-10, 10] is not re-centered.                  *)
(* Amended: a column whose standard deviation is 0 comes out equal to the  *)
(* input column when its value lies in [-10, 10]; a constant column whose  *)
(* value lies outside [-10, 10] has its mean subtracted (scaling is        *)
(* skipped) and comes out as a column of zeros.                            *)
(***************************************************************************)
C14_Normalized == tiPc = "returned" /\ C7_Supported /\ Len(tiOps) > 0

\* The columns of X that hold one value in every row.
C14_ConstantColumns ==
  {f \in 1..n_features(tiX) :
     \A k, l \in 1..Len(tiX.cols[f]) : tiX.cols[f][k] = tiX.cols[f][l]}

C14_ClampOf(v) ==
  IF v.n > trunc * v.d THEN IntNum(trunc)
  ELSE IF v.n < -trunc * v.d THEN IntNum(-trunc)
  ELSE v

\* The claim as stated.
C14_Original ==
  C14_Normalized =>
    \A f \in C14_ConstantColumns : \A k \in 1..Len(tiZ[f]) :
      tiZ[f][k] = C14_ClampOf(tiX.cols[f][k])

C14_ConstantColumnCentered ==
  C14_Normalized =>
    \A f \in C14_ConstantColumns : \A k \in 1..Len(tiZ[f]) :
      IF C14_ClampOf(tiX.cols[f][k]) = tiX.cols[f][k]
        THEN tiZ[f][k] = tiX.cols[f][k]
        ELSE IsZero(tiZ[f][k]) /\ tiZ[f][k].sym = <<>>

\* A returned matrix with a constant column of 11 and one of 5.
C14_Witness ==
  /\ C14_Normalized
  /\ \E f \in C14_ConstantColumns : \E k \in 1..Len(tiZ[f]) :
       tiX.cols[f][k] = IntNum(11) /\ IsZero(tiZ[f][k])
  /\ \E f \in C14_ConstantColumns : \E k \in 1..Len(tiZ[f]) :
       tiX.cols[f][k] = IntNum(5) /\ tiZ[f][k] = IntNum(5)

(***************************************************************************)
(* C15: when the output op normalize finds that the standard deviation of  *)
(* the weighted entries of a task is zero, normalization is skipped for    *)
(* that task: the task column of y is left exactly as it was before the    *)
(* op, no error is raised, and processing continues with the task's        *)
(* remaining ops and the remaining tasks.                                  *)
(***************************************************************************)
\* normalize, the first op of the task the loop is at, has just been applied
\* to the column as the caller gave it.
C15_AfterFirstNormalize ==
  /\ toPc \in {"ops", "raised"}
  /\ toTask <= Len(endpoints)
  /\ Len(toTransforms[endpoints[toTask]]) >= 1
  /\ toTransforms[endpoints[toTask]][1] = "normalize"
  /\ toOp = 2

\* The weighted entries of the column are one or more equal values.
C15_ZeroDeviation ==
  LET weighted == {i \in 1..Len(toY0) : toW[i][toTask].n # 0}
  IN /\ weighted # {}
     /\ \A i, j \in weighted : toY0[i][toTask] = toY0[j][toTask]

C15_ZeroDeviationSkipped ==
  (C15_AfterFirstNormalize /\ C15_ZeroDeviation) =>
    /\ toPc = "ops"
    /\ \A i \in 1..Len(toY) : toY[i][toTask] = toY0[i][toTask]

(***************************************************************************)
(* C16: transform_outputs applies each task's declared ops, in their       *)
(* declared order, to that task's own column of y, the columns of y being  *)
(* the tasks sorted by name; this holds also when ops are declared for     *)
(* only some of the tasks of y, and a task with an empty op list or no     *)
(* entry has its column unchanged.                                         *)
(***************************************************************************)
C16_Declared(c) ==
  IF TaskColumns[c] \in DOMAIN toTransforms
    THEN toTransforms[TaskColumns[c]] ELSE <<>>

C16_OpsOnOwnColumn ==
  toPc = "returned" =>
    \A c \in 1..Len(TaskColumns) : \A i \in 1..Len(toY) :
      /\ C16_Declared(c) = <<>> => toY[i][c] = toY0[i][c]
      /\ C16_Declared(c) = <<"log">> =>
           toY[i][c] = [toY0[i][c] EXCEPT !.sym = <<"log">>]

(***************************************************************************)
(* C17: in balance_positives a task column holding any label outside       *)
(* {0, 1, -1} is skipped entirely: its column of W is the same before and  *)
(* after the call, no error is raised, and every other task column is      *)
(* balanced as if the offending task were absent, whatever the position of *)
(* the offending task and of the offending row.                            *)
(***************************************************************************)
C17_Offending(t) == \E i \in 1..Len(bpY) : bpY[i][t] \notin {0, 1, -1}

\* The weight of row i in a balanced column t.
C17_Balanced(i, t) ==
  LET pos == {j \in 1..Len(bpY) : bpY[j][t] = 1}
      neg == {j \in 1..Len(bpY) : bpY[j][t] = 0}
  IN IF i \in pos THEN Num(Cardinality(neg), Cardinality(pos), 1)
     ELSE IF i \in neg THEN One
     ELSE bpW0[i][t]

C17_InvalidTaskSkipped ==
  bpPc \notin {"idle", "call"} =>
    /\ bpPc = "returned"
    /\ \A t \in Targets : \A i \in 1..Len(bpY) :
         IF C17_Offending(t) THEN bpW[i][t] = bpW0[i][t]
         ELSE RatEq(bpW[i][t], C17_Balanced(i, t))
              /\ (IsZero(bpW[i][t]) <=> IsZero(C17_Balanced(i, t)))

\* A returned W with a skipped column, whose offending label is in the last
\* row and whose two positives would have been reweighted, next to a column
\* that was balanced.
C17_Witness ==
  /\ bpPc = "returned"
  /\ Len(bpY) = 3
  /\ \E t, u \in Targets :
       /\ t # u
       /\ bpY[1][t] = 1 /\ bpY[2][t] = 1 /\ bpY[3][t] = 2
       /\ ~C17_Offending(u)
       /\ bpY[1][u] = 1 /\ bpY[2][u] = 0 /\ bpY[3][u] = 0
       /\ bpW[1][u] # bpW0[1][u]

(***************************************************************************)
(* C18: the placeholder identifier generate_targets synthesizes for a row  *)
(* whose identifier is absent guarantees uniqueness: within one build no   *)
(* two retained rows end up with the same canonical identifier because of  *)
(* a placeholder, neither two placeholder rows nor a placeholder row and a *)
(* row that carries a real identifier.                                     *)
(***************************************************************************)
\* The k-th retained row had no identifier.
C18_Placeholder(k) == tbRawRows[C12_Retained[k]].smiles = None

C18_PlaceholdersUnique ==
  tbPc \in {"rows", "returned"} =>
    \A k, l \in 1..Len(tbRows) :
      (k # l /\ C18_Placeholder(k)) => tbRows[k].smiles # tbRows[l].smiles

(***************************************************************************)
(* C19: in transform_inputs the error 'Truncation failed' is unreachable   *)
(* for every finite input: after the two clamping assignments every value  *)
(* of the column lies in [-10, 10], so the check that follows them never   *)
(* raises, and the only error transform_inputs can raise is the            *)
(* unsupported-op error.                                                   *)
(* Amended: 'Truncation failed' is unreachable for every finite input; the *)
(* errors transform_inputs can raise are the unsupported-op error and, on  *)
(* a matrix with columns but no rows and a first op 'normalize', the error *)
(* of np.amax on an empty column.                                          *)
(***************************************************************************)
\* The claim as stated.
C19_Original ==
  /\ tiErr # "Truncation failed"
  /\ tiPc = "raised" => tiErr = "Unsupported Input Transform"

C19_TruncationNeverFails ==
  /\ tiErr # "Truncation failed"
  /\ tiPc = "raised" =>
       \/ tiErr = "Unsupported Input Transform"
       \/ /\ tiErr = "zero-size array"
          /\ n_samples(tiX) = 0 /\ n_features(tiX) > 0
          /\ tiOps[1] = "normalize"

\* The first column went through normalize, was clamped at the lower bound
\* and passed the check after the clamping.
C19_Witness ==
  /\ tiPc = "features" /\ tiFeature = 2
  /\ Len(tiOps) > 0 /\ C7_Supported
  /\ \E k \in 1..Len(tiZ[1]) :
       tiZ[1][k] = IntNum(-trunc) /\ tiX.cols[1][k] # IntNum(-trunc)

====
